---- MODULE Spec2Model ----
(***************************************************************************)
(* Model of nuls (src/src/main.rs): a directory listing rendered as a      *)
(* table.  Strings whose characters matter (sizes, permission strings,     *)
(* timestamps) are sequences of one-character strings; a colour applied by *)
(* owo_colors is kept beside the text as a style tag instead of as escape  *)
(* bytes, so "ignoring colour" is the projection onto the text.            *)
(***************************************************************************)
EXTENDS Integers, Sequences, FiniteSets, TLC

VARIABLES
    pc,        \* position of the single thread: main / get_files / loop / get_entries / print / done / panicked
    path,      \* main's `path` (line 54)
    data,      \* get_files' `data: Vec<FileEntry>` (line 75)
    cur,       \* the DirEntry handed to get_entries (line 78), <<>> when none
    yielded,   \* history: the items read_dir produced and what each entry's two metadata queries answered
    stdout,    \* what println! wrote (lines 65, 67, 70)
    path_exists,\* <<r>> once fs::exists returned r (line 56), <<>> before
    enumerated,\* "no" until fs::read_dir is called (line 76), then how it ended: "ok" / "err"
    arg,       \* unit harness: the argument a function is applied to, <<>> when unused
    ret        \* unit harness: <<result>> once the function returned

vars == <<pc, path, data, cur, yielded, stdout, path_exists, enumerated, arg, ret>>

\* ------------------------------------------------------------------ bounds

\* How many items the directory iterator yields at most in one run.
MaxEntries == 2

\* Half-width of the window of byte lengths taken around each tier boundary.
SizeSlack == 3

\* ------------------------------------------------------- integer helpers

KiB == 1024

MiB == KiB * KiB

RECURSIVE BitAnd(_, _)
\* u32 `a & b`
BitAnd(a, b) ==
    IF a = 0 \/ b = 0 THEN 0
    ELSE (IF a % 2 = 1 /\ b % 2 = 1 THEN 1 ELSE 0) + 2 * BitAnd(a \div 2, b \div 2)

DigitChars == <<"0", "1", "2", "3", "4", "5", "6", "7", "8", "9">>

RECURSIVE to_string(_)
\* Display of an unsigned integer: its decimal digits, most significant first.
to_string(n) ==
    IF n < 10 THEN <<DigitChars[n + 1]>>
    ELSE to_string(n \div 10) \o <<DigitChars[(n % 10) + 1]>>

\* `size as f64 / d`: the quotient as the exact pair (numerator, denominator).
\* The conversion and the division by a power of two are exact below 2^53.
f64_div(size, d) == [num |-> size, den |-> d]

\* f64::round: nearest integer, halves away from zero (operands are >= 0).
f64_round(q) == (2 * q.num + q.den) \div (2 * q.den)

\* Display of an integral f64: the digits, without a fractional part.
f64_to_string(v) == to_string(v)

\* A piece of text with the owo_colors style applied to it.
Styled(text, fg, bold) == [text |-> text, fg |-> fg, bold |-> bold]

\* --------------------------------------------------------- parse_file_size

\* Mutation: the "m" tier starts at 1 MiB itself (>= for >).
parse_file_size_ge(size) ==
    IF size < KiB THEN Styled(to_string(size), "green", FALSE)
    ELSE IF size >= MiB
         THEN Styled(f64_to_string(f64_round(f64_div(size, MiB))) \o <<"m">>,
                     "bright_yellow", FALSE)
         ELSE Styled(f64_to_string(f64_round(f64_div(size, KiB))) \o <<"k">>,
                     "bright_yellow", FALSE)

parse_file_size(size) ==
    IF size < KiB THEN Styled(to_string(size), "green", FALSE)
    ELSE IF size > MiB
         THEN Styled(f64_to_string(f64_round(f64_div(size, MiB))) \o <<"m">>,
                     "bright_yellow", FALSE)
         ELSE Styled(f64_to_string(f64_round(f64_div(size, KiB))) \o <<"k">>,
                     "bright_yellow", FALSE)

\* ------------------------------------------------ metadata (environment)

\* st_mode file-type bits, as fs::Metadata::permissions().mode() reports them.
TypeBits(ftype) ==
    CASE ftype = "dir"     -> \o040000
      [] ftype = "file"    -> \o100000
      [] ftype = "symlink" -> \o120000
      [] ftype = "fifo"    -> \o010000
      [] ftype = "socket"  -> \o140000
      [] ftype = "chardev" -> \o020000

\* One fs::Metadata snapshot.  mtime is <<t>> when modified() is Ok(t) and
\* <<>> when it is Err.
Metadata(ftype, perm, len, uid, mtime) ==
    [ftype |-> ftype, mode |-> TypeBits(ftype) + perm, len |-> len, uid |-> uid,
     mtime |-> mtime]

is_dir(meta_data) == meta_data.ftype = "dir"

is_file(meta_data) == meta_data.ftype = "file"

\* Result values of the fallible calls.
Ok(v) == [ok |-> TRUE, val |-> <<v>>]

Err == [ok |-> FALSE, val |-> <<>>]

\* ---------------------------------------------------- permissions_to_string

\* The `flags` table, in its order.
flags ==
    << [bit |-> \o400, ch |-> "r"], [bit |-> \o200, ch |-> "w"], [bit |-> \o100, ch |-> "x"],
       [bit |-> \o040, ch |-> "r"], [bit |-> \o020, ch |-> "w"], [bit |-> \o010, ch |-> "x"],
       [bit |-> \o004, ch |-> "r"], [bit |-> \o002, ch |-> "w"], [bit |-> \o001, ch |-> "x"] >>

\* The styled character pushed for flags[i] (i is 0-based, as enumerate() counts).
PermCell(mode, i) ==
    LET f == flags[i + 1] IN
    IF BitAnd(mode, f.bit) # 0
    THEN IF i < 3
         THEN CASE f.ch = "x" -> Styled(<<f.ch>>, "bright_yellow", FALSE)
                [] f.ch = "w" -> Styled(<<f.ch>>, "bright_red", FALSE)
                [] f.ch = "r" -> Styled(<<f.ch>>, "bright_yellow", FALSE)
                [] OTHER      -> Styled(<<f.ch>>, "none", FALSE)
         ELSE Styled(<<f.ch>>, "green", FALSE)
    ELSE Styled(<<"-">>, "bright_black", FALSE)

\* The leading marker of the permission string.
PermMarker(dir) ==
    IF dir THEN Styled(<<"d">>, "bright_blue", FALSE)
    ELSE Styled(<<".">>, "white", FALSE)

\* Mutation: the marker is taken from the mode's owner-execute bit.
permissions_to_string_xmark(meta_data, mode) ==
    [parts |-> <<PermMarker(BitAnd(mode, \o100) # 0)>>
                 \o [i \in 1..9 |-> PermCell(mode, i - 1)],
     bold |-> TRUE]

\* Mutation: the group triplet tests the owner's bits.
permissions_to_string_owner(meta_data, mode) ==
    [parts |-> <<PermMarker(is_dir(meta_data))>>
                 \o [i \in 1..9 |-> PermCell(IF i \in 4..6 THEN mode \div 8 ELSE mode, i - 1)],
     bold |-> TRUE]

permissions_to_string(meta_data, mode) ==
    [parts |-> <<PermMarker(is_dir(meta_data))>> \o [i \in 1..9 |-> PermCell(mode, i - 1)],
     bold |-> TRUE]

\* The text of a string built from styled parts, colour ignored.
PlainParts(s) == [i \in 1..Len(s.parts) |-> s.parts[i].text[1]]

\* ------------------------------------------------------------ uid_to_string

\* The identity directory: what User::from_uid finds for a uid.
passwd(uid) == IF uid = 1000 THEN Ok("alice") ELSE Err

\* lookup is "ok" when the directory could be queried, "err" when the query failed.
uid_to_string(uid, lookup) ==
    IF lookup = "ok" /\ passwd(uid).ok THEN passwd(uid).val[1] ELSE "User error"

\* ---------------------------------------------------------- parse_file_name

\* A DirEntry: its file name (an OsString, valid UTF-8 or not).
DirEntry(text, utf8) == [file_name |-> [text |-> text, utf8 |-> utf8]]

\* OsString::into_string().unwrap_or("Unknown name")
into_string_or_unknown(os) == IF os.utf8 THEN os.text ELSE "Unknown name"

\* lmeta is the result of entry.metadata(), the query that does not follow links.
\* unwrap() of an Err panics.
parse_file_name(entry, lmeta) ==
    IF ~lmeta.ok THEN [panic |-> TRUE]
    ELSE IF is_dir(lmeta.val[1])
         THEN [panic |-> FALSE,
               val |-> Styled(into_string_or_unknown(entry.file_name), "blue", TRUE)]
         ELSE [panic |-> FALSE,
               val |-> Styled(into_string_or_unknown(entry.file_name), "white", FALSE)]

\* ------------------------------------------------------------- get_entries

MonthAbbr ==
    <<"Jan", "Feb", "Mar", "Apr", "May", "Jun", "Jul", "Aug", "Sep", "Oct", "Nov", "Dec">>

\* Two digits, padded with `pad`.
Pad2(n, pad) == IF n < 10 THEN <<pad>> \o to_string(n) ELSE to_string(n)

\* date.format("%e %b %H:%M") of a UTC time given by its calendar fields.
format_modified(t) ==
    Pad2(t.day, " ") \o <<" ", MonthAbbr[t.month], " ">>
        \o Pad2(t.hour, "0") \o <<":">> \o Pad2(t.minute, "0")

\* Mutation: the size is shown whenever the length is not zero.
FileEntry_by_len(meta_data, lookup, name) ==
    [permissions |-> permissions_to_string(meta_data, meta_data.mode),
     length      |-> IF meta_data.len > 0 THEN parse_file_size(meta_data.len)
                     ELSE Styled(<<"-">>, "cyan", FALSE),
     owner       |-> uid_to_string(meta_data.uid, lookup),
     name        |-> name,
     e_type      |-> IF is_dir(meta_data) THEN "Dir" ELSE "File",
     modified    |-> IF meta_data.mtime # <<>> THEN format_modified(meta_data.mtime[1])
                     ELSE <<>>]

\* The FileEntry literal of lines 87-107, its fields evaluated in order; the
\* name is passed in because its evaluation may panic.
FileEntry(meta_data, lookup, name) ==
    [permissions |-> permissions_to_string(meta_data, meta_data.mode),
     length      |-> IF is_file(meta_data) THEN parse_file_size(meta_data.len)
                     ELSE Styled(<<"-">>, "cyan", FALSE),
     owner       |-> uid_to_string(meta_data.uid, lookup),
     name        |-> name,
     e_type      |-> IF is_dir(meta_data) THEN "Dir" ELSE "File",
     modified    |-> IF meta_data.mtime # <<>> THEN format_modified(meta_data.mtime[1])
                     ELSE <<>>]

\* Mutation: a new record is inserted at the front of the vector.
get_entries_front(entry, d, env) ==
    IF env.metadata.ok
    THEN LET meta_data == env.metadata.val[1]
             name == parse_file_name(entry, env.lmetadata)
         IN IF name.panic THEN [data |-> d, panic |-> TRUE]
            ELSE [data |-> <<FileEntry(meta_data, env.lookup, name.val)>> \o d,
                  panic |-> FALSE]
    ELSE [data |-> d, panic |-> FALSE]

\* get_entries(entry, &mut data): the vector afterwards, or a panic.  env holds
\* what the environment answers during the call: metadata = fs::metadata(path),
\* lmetadata = entry.metadata(), lookup = whether User::from_uid could query.
get_entries(entry, d, env) ==
    IF env.metadata.ok
    THEN LET meta_data == env.metadata.val[1]
             name == parse_file_name(entry, env.lmetadata)
         IN IF name.panic THEN [data |-> d, panic |-> TRUE]
            ELSE [data |-> Append(d, FileEntry(meta_data, env.lookup, name.val)),
                  panic |-> FALSE]
    ELSE [data |-> d, panic |-> FALSE]

\* ------------------------------------------------- environment of a run

\* The modification time the file system reports (14 Jun 09:32 UTC).
T0 == [day |-> 14, month |-> 6, hour |-> 9, minute |-> 32]

\* What fs::metadata(entry.path()) can report in a run of the program: two
\* directories, two regular files and a FIFO; uid 1000 has a name, uid 4242 has
\* none; two of the snapshots lack a modification time.
RunMetas ==
    { Metadata("dir",  \o755, 4096, 1000, <<T0>>),
      Metadata("dir",  \o700, 0,    4242, <<>>),
      Metadata("file", \o644, 500,  1000, <<T0>>),
      Metadata("file", \o600, 2048, 4242, <<T0>>),
      Metadata("fifo", \o644, 0,    1000, <<>>) }

\* What entry.metadata() can answer once fs::metadata answered m: the same
\* snapshot (a plain entry), the link's own snapshot (the entry is a symbolic
\* link to m's object), or an error (the entry vanished in between).
LMetaResults(m) ==
    {Ok(m), Ok(Metadata("symlink", \o777, 12, m.uid, m.mtime)), Err}

\* The environment's answers during one call of get_entries.
Envs(metas) ==
    {[metadata |-> Err, lmetadata |-> Err, lookup |-> "ok"]}
    \cup { [metadata |-> Ok(m), lmetadata |-> l, lookup |-> u] :
             m \in metas, l \in UNION {LMetaResults(x) : x \in metas}, u \in {"ok", "err"} }

\* ------------------------------------------------------------------- main

Line(text, fg) == [kind |-> "line", text |-> text, fg |-> fg]

\* Table::new(&files) with the settings of lines 60-64: a header row, then one
\* row per record.
Table(files) ==
    [kind   |-> "table",
     style  |-> "rounded",
     header |-> <<"Permissions", "Size", "Owner", "Name", "Type", "Modified">>,
     rows   |-> files]

Init ==
    /\ pc = "main"
    /\ path = ""
    /\ data = <<>>
    /\ cur = <<>>
    /\ yielded = <<>>
    /\ stdout = <<>>
    /\ path_exists = <<>>
    /\ enumerated = "no"
    /\ arg = <<>>
    /\ ret = <<>>

\* Mutation: an existence check that fails counts as "does not exist".
Main_unwrap_or ==
    /\ pc = "main"
    /\ \E cli_path \in {<<>>, <<"dir">>}, r \in {Ok(TRUE), Ok(FALSE), Err} :
         /\ path' = IF cli_path = <<>> THEN "." ELSE cli_path[1]
         /\ path_exists' = <<r>>
         /\ IF r.ok /\ r.val[1]
            THEN pc' = "get_files" /\ stdout' = stdout
            ELSE pc' = "done" /\ stdout' = Append(stdout, Line("Path does not exist", "red"))
    /\ UNCHANGED <<data, cur, yielded, enumerated, arg, ret>>

\* main up to the call of get_files: the argument, the existence check and
\* the two messages.
Main ==
    /\ pc = "main"
    /\ \E cli_path \in {<<>>, <<"dir">>}, r \in {Ok(TRUE), Ok(FALSE), Err} :
         /\ path' = IF cli_path = <<>> THEN "." ELSE cli_path[1]
         /\ path_exists' = <<r>>
         /\ IF r.ok
            THEN IF r.val[1]
                 THEN pc' = "get_files" /\ stdout' = stdout
                 ELSE pc' = "done"
                      /\ stdout' = Append(stdout, Line("Path does not exist", "red"))
            ELSE pc' = "done"
                 /\ stdout' = Append(stdout, Line("Error reading directory", "red"))
    /\ UNCHANGED <<data, cur, yielded, enumerated, arg, ret>>

\* Mutation: a directory that cannot be read is reported.
GetFiles_report ==
    /\ pc = "get_files"
    /\ data' = <<>>
    /\ \E r \in {"ok", "err"} :
         /\ enumerated' = r
         /\ IF r = "ok" THEN pc' = "loop" /\ stdout' = stdout
            ELSE pc' = "print"
                 /\ stdout' = Append(stdout, Line("Error reading directory", "red"))
    /\ UNCHANGED <<path, cur, yielded, path_exists, arg, ret>>

\* get_files up to the loop: the empty vector and fs::read_dir.
GetFiles ==
    /\ pc = "get_files"
    /\ data' = <<>>
    /\ \E r \in {"ok", "err"} :
         /\ enumerated' = r
         /\ pc' = IF r = "ok" THEN "loop" ELSE "print"
    /\ UNCHANGED <<path, cur, yielded, stdout, path_exists, arg, ret>>

\* The name of the n-th item of the directory (names within a directory differ).
NameOf(n) == "f" \o ToString(n)

\* One step of `for entry in read_dir.flatten()`: the iterator ends, or yields
\* an Err (dropped by flatten), or yields an entry get_entries is called with.
ReadDirNext ==
    /\ pc = "loop"
    /\ \/ /\ pc' = "print"
          /\ UNCHANGED <<cur, yielded>>
       \/ /\ Len(yielded) < MaxEntries
          /\ yielded' = Append(yielded, [entry |-> Err, metadata |-> Err, lmetadata |-> Err])
          /\ UNCHANGED <<pc, cur>>
       \/ /\ Len(yielded) < MaxEntries
          /\ \E utf8 \in BOOLEAN :
               LET e == DirEntry(NameOf(Len(yielded) + 1), utf8) IN
               /\ cur' = <<e>>
               /\ yielded' = Append(yielded, [entry |-> Ok(e), metadata |-> Err, lmetadata |-> Err])
          /\ pc' = "get_entries"
    /\ UNCHANGED <<path, data, stdout, path_exists, enumerated, arg, ret>>

\* The call get_entries(entry, &mut data) of line 78.
GetEntries ==
    /\ pc = "get_entries"
    /\ \E env \in Envs(RunMetas) :
         /\ env.metadata.ok => env.lmetadata \in LMetaResults(env.metadata.val[1])
         /\ LET r == get_entries(cur[1], data, env) IN
            /\ data' = r.data
            /\ pc' = IF r.panic THEN "panicked" ELSE "loop"
         /\ yielded' = [yielded EXCEPT ![Len(yielded)].metadata = env.metadata,
                                      ![Len(yielded)].lmetadata = env.lmetadata]
    /\ cur' = <<>>
    /\ UNCHANGED <<path, stdout, path_exists, enumerated, arg, ret>>

\* The rest of main: the table is built from what get_files returned and printed.
PrintTable ==
    /\ pc = "print"
    /\ stdout' = Append(stdout, Table(data))
    /\ pc' = "done"
    /\ UNCHANGED <<path, data, cur, yielded, path_exists, enumerated, arg, ret>>

Next == Main \/ GetFiles \/ ReadDirNext \/ GetEntries \/ PrintTable

Spec == Init /\ [][Next]_vars

\* ------------------------------------------------------------ unit harness
\* One call of one function on an argument drawn from a bounded set.

SizePoints ==
    {0, 500, KiB, KiB + KiB \div 2, 2 * KiB, MiB - KiB \div 2, MiB,
     MiB + MiB \div 2, 2 * MiB, 10 * MiB, 1000 * MiB}

\* Byte lengths: a window around every point.
Sizes ==
    {n \in UNION {(p - SizeSlack)..(p + SizeSlack) : p \in SizePoints} : n >= 0}

\* Every permission, setuid, setgid and sticky bit, under three file types.
PermMetas ==
    {Metadata(ft, perm, 0, 1000, <<>>) : ft \in {"dir", "file", "fifo"}, perm \in 0..\o7777}

\* Snapshots fs::metadata can report (it follows links, so never a link).
WideMetas ==
    {Metadata(ft, perm, len, uid, mtime) :
        ft \in {"dir", "file", "fifo", "socket", "chardev"},
        perm \in {0, \o644, \o754, \o1777},
        len \in {0, 500, 4096, MiB + 1, 3 * MiB},
        uid \in {1000, 4242},
        mtime \in {<<T0>>, <<>>}}

EntryEnvs ==
    {[metadata |-> Err, lmetadata |-> Err, lookup |-> "ok"]}
    \cup { [metadata |-> Ok(m), lmetadata |-> l, lookup |-> u] :
             m \in WideMetas, l \in {"same", "link", "err"}, u \in {"ok", "err"} }

FnArgs ==
    {[fn |-> "parse_file_size", size |-> n] : n \in Sizes}
    \cup {[fn |-> "permissions_to_string", meta_data |-> m] : m \in PermMetas}
    \cup {[fn |-> "get_entries", entry |-> DirEntry("f1", utf8), env |-> e] :
            utf8 \in BOOLEAN, e \in EntryEnvs}

\* The answer of entry.metadata() an EntryEnvs element stands for.
LMetaOf(env) ==
    IF ~env.metadata.ok \/ env.lmetadata = "err" THEN Err
    ELSE IF env.lmetadata = "same" THEN env.metadata
    ELSE LET m == env.metadata.val[1] IN Ok(Metadata("symlink", \o777, 12, m.uid, m.mtime))

InitFn ==
    /\ pc = "harness"
    /\ path = ""
    /\ data = <<>>
    /\ cur = <<>>
    /\ yielded = <<>>
    /\ stdout = <<>>
    /\ path_exists = <<>>
    /\ enumerated = "no"
    /\ arg \in {<<a>> : a \in FnArgs}
    /\ ret = <<>>

CallParseFileSize ==
    /\ pc = "harness" /\ ret = <<>>
    /\ arg[1].fn = "parse_file_size"
    /\ ret' = <<parse_file_size(arg[1].size)>>
    /\ UNCHANGED <<pc, path, data, cur, yielded, stdout, path_exists, enumerated, arg>>

CallPermissionsToString ==
    /\ pc = "harness" /\ ret = <<>>
    /\ arg[1].fn = "permissions_to_string"
    /\ ret' = <<permissions_to_string(arg[1].meta_data, arg[1].meta_data.mode)>>
    /\ UNCHANGED <<pc, path, data, cur, yielded, stdout, path_exists, enumerated, arg>>

CallGetEntries ==
    /\ pc = "harness" /\ ret = <<>>
    /\ arg[1].fn = "get_entries"
    /\ ret' = <<get_entries(arg[1].entry, <<>>,
                            [arg[1].env EXCEPT !.lmetadata = LMetaOf(arg[1].env)])>>
    /\ UNCHANGED <<pc, path, data, cur, yielded, stdout, path_exists, enumerated, arg>>

NextFn == CallParseFileSize \/ CallPermissionsToString \/ CallGetEntries

SpecFn == InitFn /\ [][NextFn]_vars

\* ---------------------------------------------------------------- claims

Called(fn) == pc = "harness" /\ ret # <<>> /\ arg[1].fn = fn

DigitVal(c) == CHOOSE d \in 0..9 : DigitChars[d + 1] = c

\* t is a decimal numeral without a leading zero.
IsNumeral(t) ==
    /\ Len(t) >= 1
    /\ \A i \in 1..Len(t) : \E d \in 0..9 : DigitChars[d + 1] = t[i]
    /\ Len(t) > 1 => t[1] # "0"

RECURSIVE DecValue(_)
DecValue(t) ==
    IF Len(t) = 0 THEN 0
    ELSE 10 * DecValue(SubSeq(t, 1, Len(t) - 1)) + DigitVal(t[Len(t)])

\* t is the numeral of n/d rounded to a nearest integer, followed by suffix.
IsRounded(t, n, d, suffix) ==
    /\ Len(t) >= 2
    /\ t[Len(t)] = suffix
    /\ LET num == SubSeq(t, 1, Len(t) - 1) IN
       /\ IsNumeral(num)
       /\ 2 * n - d <= 2 * d * DecValue(num)
       /\ 2 * d * DecValue(num) <= 2 * n + d

\* C1: ignoring colour, parse_file_size(n) is the decimal numeral of n below
\* 1024, round(n / 1048576) followed by "m" above 1048576, and round(n / 1024)
\* followed by "k" from 1024 to 1048576 inclusive; 0 -> "0", 1023 -> "1023",
\* 1024 -> "1k", 2048 -> "2k", 1048576 -> "1024k", 1048577 -> "1m".
C1_SizeTiers ==
    Called("parse_file_size") =>
        LET n == arg[1].size
            t == ret[1].text
        IN /\ n < 1024 => IsNumeral(t) /\ DecValue(t) = n
           /\ n > 1048576 => IsRounded(t, n, 1048576, "m")
           /\ (1024 <= n /\ n <= 1048576) => IsRounded(t, n, 1024, "k")
           /\ n = 0 => t = <<"0">>
           /\ n = 1023 => t = <<"1", "0", "2", "3">>
           /\ n = 1024 => t = <<"1", "k">>
           /\ n = 2048 => t = <<"2", "k">>
           /\ n = 1048576 => t = <<"1", "0", "2", "4", "k">>
           /\ n = 1048577 => t = <<"1", "m">>

C1_Witness ==
    /\ Called("parse_file_size")
    /\ arg[1].size = 1048576
    /\ ret[1].text = <<"1", "0", "2", "4", "k">>

\* The nine characters after the marker.
PermBody(s) == SubSeq(PlainParts(s), 2, Len(s.parts))

\* The character the claim gives position i (0..8) of the body for a mode:
\* the letter when bit 0o400 >> i is set, read off the low nine bits.
ExpectedPermChar(mode, i) ==
    LET low == mode % 512
        bit == (low \div (2 ^ (8 - i))) % 2
    IN IF bit = 1 THEN <<"r", "w", "x">>[(i % 3) + 1] ELSE "-"

C3_NeverFailsOutright == pc # "panicked"

\* The entries whose metadata fetch succeeded, in the order they were yielded.
Fetched == SelectSeq(yielded, LAMBDA y : y.entry.ok /\ y.metadata.ok)

\* C4: what get_files returns is the subsequence, in enumeration order, of the
\* entries whose metadata fetch succeeded: one record each, nothing for the
\* others, no message, no reordering.
C4_FetchedInOrder ==
    (pc \in {"loop", "print", "done"} /\ enumerated # "no") =>
        /\ Len(data) = Len(Fetched)
        /\ \A i \in 1..Len(data) :
             LET e == Fetched[i].entry.val[1]
                 m == Fetched[i].metadata.val[1]
             IN /\ data[i].name.text =
                      (IF e.file_name.utf8 THEN e.file_name.text ELSE "Unknown name")
                /\ data[i].e_type = (IF m.ftype = "dir" THEN "Dir" ELSE "File")
                /\ (data[i].modified = <<>>) = (m.mtime = <<>>)
        /\ \A i \in 1..Len(stdout) : stdout[i].kind = "table"
        /\ pc # "done" => stdout = <<>>

C4_Witness ==
    /\ pc = "done"
    /\ Len(yielded) = 2
    /\ yielded[1].entry.ok /\ ~yielded[1].metadata.ok
    /\ yielded[2].entry.ok /\ yielded[2].metadata.ok
    /\ Len(data) = 1
    /\ data[1].name.text = "f2"

HasTable == \E i \in 1..Len(stdout) : stdout[i].kind = "table"

\* C5: a table is printed only when the existence check answered "exists";
\* "does not exist" prints exactly "Path does not exist", a failed check prints
\* exactly "Error reading directory", and in both cases the run ends without a
\* table and without enumerating the directory.
C5_PathMessages ==
    /\ HasTable => path_exists = <<Ok(TRUE)>>
    /\ path_exists = <<Ok(FALSE)>> =>
         /\ pc = "done" /\ enumerated = "no"
         /\ stdout = <<[kind |-> "line", text |-> "Path does not exist", fg |-> "red"]>>
    /\ path_exists = <<Err>> =>
         /\ pc = "done" /\ enumerated = "no"
         /\ stdout = <<[kind |-> "line", text |-> "Error reading directory", fg |-> "red"]>>

C5_Witness ==
    /\ path_exists = <<Err>>
    /\ pc = "done"
    /\ Len(stdout) = 1 /\ stdout[1].text = "Error reading directory"

\* The printed table of an empty listing: the header row and no data row.
EmptyTable ==
    [kind |-> "table", style |-> "rounded",
     header |-> <<"Permissions", "Size", "Owner", "Name", "Type", "Modified">>,
     rows |-> <<>>]

\* C6: when the path exists and opening it for enumeration fails, get_files
\* returns no record, no message is printed, and the run ends with the table of
\* the header and zero data rows, as for a directory that is empty.
C6_UnreadableLooksEmpty ==
    /\ (enumerated = "err" /\ pc = "print") => (data = <<>> /\ stdout = <<>>)
    /\ (enumerated = "err" /\ pc = "done") => (data = <<>> /\ stdout = <<EmptyTable>>)
    /\ enumerated = "err" => pc \in {"print", "done"}
    /\ (enumerated = "ok" /\ yielded = <<>> /\ pc = "done") => stdout = <<EmptyTable>>

C6_Witness == enumerated = "err" /\ pc = "done" /\ stdout = <<EmptyTable>>

\* The record a harness call of get_entries pushed, if it pushed one.
Pushed == Called("get_entries") /\ ~ret[1].panic /\ Len(ret[1].data) = 1

\* C7: a record whose metadata says is-directory has the size "-", whatever the
\* byte length.
C7_DirectorySizePlaceholder ==
    (Called("get_entries") /\ arg[1].env.metadata.ok
        /\ arg[1].env.metadata.val[1].ftype = "dir" /\ ~ret[1].panic) =>
        /\ Len(ret[1].data) = 1
        /\ ret[1].data[1].length.text = <<"-">>

C7_Witness ==
    /\ Pushed
    /\ arg[1].env.metadata.val[1].ftype = "dir"
    /\ arg[1].env.metadata.val[1].len > 1048576
    /\ ret[1].data[1].length.text = <<"-">>

\* C8: the first character of the permission string is "d" exactly when the
\* metadata is a directory's and "." otherwise, for every mode; in every record
\* the marker is "d" if and only if the type tag is Dir.
C8_DirectoryMarker ==
    /\ Called("permissions_to_string") =>
         PlainParts(ret[1])[1] = (IF arg[1].meta_data.ftype = "dir" THEN "d" ELSE ".")
    /\ Pushed =>
         LET r == ret[1].data[1] IN
         /\ PlainParts(r.permissions)[1] \in {"d", "."}
         /\ (PlainParts(r.permissions)[1] = "d") = (r.e_type = "Dir")
         /\ (r.e_type = "Dir") = (arg[1].env.metadata.val[1].ftype = "dir")

\* A directory without any execute bit, and its record.
C8_Witness ==
    /\ Pushed
    /\ arg[1].env.metadata.val[1].ftype = "dir"
    /\ arg[1].env.metadata.val[1].mode % 512 = 420
    /\ PlainParts(ret[1].data[1].permissions)[1] = "d"
    /\ ret[1].data[1].e_type = "Dir"

DirStyled(name) == name.fg = "blue" /\ name.bold

\* C9: in every record the name is in the directory style if and only if the
\* type tag is Dir and the marker is "d", symbolic links included.
C9_NameStyleMatchesType ==
    \A i \in 1..Len(data) :
        DirStyled(data[i].name) =
            (data[i].e_type = "Dir" /\ PlainParts(data[i].permissions)[1] = "d")

\* t is a tiered size: a numeral, possibly followed by "k" or "m".
IsTieredSize(t) ==
    \/ IsNumeral(t)
    \/ /\ Len(t) >= 2
       /\ t[Len(t)] \in {"k", "m"}
       /\ IsNumeral(SubSeq(t, 1, Len(t) - 1))

\* C10: every record whose type tag is File has a tiered size, never the
\* placeholder "-".
C10_PlaceholderOnlyForDirectories ==
    \A i \in 1..Len(data) :
        data[i].e_type = "File" =>
            (IsTieredSize(data[i].length.text) /\ data[i].length.text # <<"-">>)

====
